---------------------------- MODULE Spec2Model ----------------------------
(***************************************************************************)
(* Model of the two GUI plugins of ign-gazebo that browse local model      *)
(* directories: InsertModel (recursive scan) and ResourceSpawner           *)
(* (single-level scan, grid/path models, preview events).                  *)
(*                                                                         *)
(* Paths, file names and file texts are strings; the std::string calls of  *)
(* the code (rfind, substr, +) are computed on them character by           *)
(* character.  The filesystem is a state variable: which paths exist,      *)
(* their kind, the enumeration order of each directory, the parse result   *)
(* of each descriptor and the text of each regular file.                   *)
(***************************************************************************)
EXTENDS Integers, Sequences, FiniteSets, TLC

VARIABLES
  fs,           \* the filesystem: [kind, entries, xml, text, link]
  localModels,  \* InsertModelPrivate::localModels (std::vector<LocalModel>)
  gridModel,    \* rows of ResourceSpawnerPrivate::gridModel
  rsModels,     \* history: the LocalModel values handed to AddLocalModel
  pathModel,    \* rows of ResourceSpawnerPrivate::pathModel
  title,        \* ResourceSpawner's plugin title
  events,       \* SpawnPreviewModel events sent to the main window
  requests,     \* history: number of /gazebo/resource_paths/get requests
  findCalls,    \* history: ResourceSpawner::FindLocalModels calls from LoadConfig
  crashed,      \* the process died (undefined behaviour took that outcome)
  imCall,       \* history: the last call into InsertModel, and their number
  rsCall,       \* history: the last call into ResourceSpawner, and their number
  rsLoaded,     \* history: the _path of each LoadLocalModel that added a record
  imTitle,      \* InsertModel's plugin title
  walk          \* the call stack of a running InsertModel::FindLocalModels

vars == <<fs, localModels, gridModel, rsModels, pathModel, title, events,
          requests, findCalls, crashed, imCall, rsCall, rsLoaded, imTitle,
          walk>>

---------------------------------------------------------------------------
(* Bounds of the model. *)

\* most entries enumerated in one `thumbnails` directory
MaxThumbs == 2
\* most scans of one behaviour of SpecScans
MaxScans == 3
\* most calls into the plugin of one behaviour of SpecPlugin, of SpecInsert
MaxOps == 3
\* deepest call stack of InsertModel::FindLocalModels the model follows
MaxDepth == 5

---------------------------------------------------------------------------
(* std::string *)

\* std::string::npos is size_t(-1); npos + 1 wraps around to 0.
Npos == -1

Max(S) == CHOOSE m \in S : \A n \in S : n <= m

Min(a, b) == IF a < b THEN a ELSE b

\* s[i], 0-based, as a one-character string.
CharAt(s, i) == SubSeq(s, i + 1, i + 1)

\* s.rfind(c) for a one-character c: the 0-based index of the last
\* occurrence, npos when there is none.
RFind(s, c) ==
  LET hits == {i \in 0..(Len(s) - 1) : CharAt(s, i) = c}
  IN IF hits = {} THEN Npos ELSE Max(hits)

\* s.substr(pos): the characters from 0-based pos to the end (pos <= size).
SubstrFrom(s, pos) == SubSeq(s, pos + 1, Len(s))

\* s.substr(0, count): the first min(count, size) characters; a count of
\* npos, the largest size_t, takes the whole string.
SubstrTo(s, count) ==
  IF count = Npos THEN s ELSE SubSeq(s, 1, Min(count, Len(s)))

Range(q) == {q[i] : i \in 1..Len(q)}

UpperCase == "ABCDEFGHIJKLMNOPQRSTUVWXYZ"

LowerCase == "abcdefghijklmnopqrstuvwxyz"

\* ::tolower in the C locale, on a one-character string.
tolower(c) ==
  LET hits == {i \in 1..Len(UpperCase) : SubSeq(UpperCase, i, i) = c}
  IN IF hits = {} THEN c
     ELSE SubSeq(LowerCase, Max(hits), Max(hits))

\* std::transform(s.begin(), s.end(), s.begin(), ::tolower)
RECURSIVE transform_tolowerFrom(_, _)
transform_tolowerFrom(s, i) ==
  IF i >= Len(s) THEN ""
  ELSE tolower(CharAt(s, i)) \o transform_tolowerFrom(s, i + 1)

transform_tolower(s) == transform_tolowerFrom(s, 0)

\* The sequences without repetition over S of length at most n.
RECURSIVE InjSeqs(_, _)
InjSeqs(S, n) ==
  IF n = 0 THEN {<<>>}
  ELSE LET shorter == InjSeqs(S, n - 1)
       IN shorter \cup
          UNION {{Append(q, x) : x \in S \ Range(q)} : q \in shorter}

---------------------------------------------------------------------------
(* The filesystem the plugins scan.                                        *)
(*   /r                    a resource root                                 *)
(*   /r/box                a model directory                               *)
(*   /r/box/thumbnails     its thumbnails (a directory, or a stray file)   *)
(*   /r/box/deep           a subdirectory holding a nested descriptor      *)
(*   /q/cyl                a model directory of a second root              *)
(*   /nx                   never exists                                    *)

\* DirIter yields each entry as the directory's path, a separator and the
\* entry's name; common::joinPaths builds the same string.
joinPaths(dir, name) == dir \o "/" \o name

\* Enumeration orders of /r that the model covers.
RootLayouts ==
  { <<>>,
    <<"notes.txt">>,
    <<"model.config">>,
    <<"box">>,
    <<"notes.txt", "box">>,
    <<"box", "model.config">>,
    <<"model.config", "box">> }

\* Enumeration orders of /r/box that the model covers.
BoxLayouts ==
  { <<>>,
    <<"model.config">>,
    <<"thumbnails", "model.sdf", "model.config">>,
    <<"thumbnails", "model.sdf">>,
    <<"deep", "model.config">>,
    <<"model.config", "model.sdf", "deep">> }

\* Names found in a thumbnails directory.  "png" has no '.', "f.PNG"
\* differs from a supported extension by case only, "sub.png" is a
\* directory.
ThumbNames ==
  {"a.txt", "b.png", "c.jpg", "d.jpeg", "e.svg", "png", "f.PNG", "sub.png"}

ThumbDirNames == {"sub.png"}

\* What tinyxml2 makes of a descriptor, and the file its <sdf> element
\* names ("" when it names none).
Descriptor(doc, name, sdf) == [doc |-> doc, name |-> name, sdf |-> sdf]

BoxDescriptors ==
  { Descriptor("unreadable", "", ""),
    Descriptor("malformed", "", ""),
    Descriptor("noModel", "", ""),
    Descriptor("noName", "", "model.sdf"),
    Descriptor("noName", "", ""),
    Descriptor("nameNoText", "", "model.sdf"),
    Descriptor("named", "Box", "model.sdf"),
    Descriptor("named", "Box", "") }

\* Texts of a model.sdf: empty, newline-terminated, last line unterminated,
\* with an empty line.
SdfTexts == {"", "<sdf/>\n", "<sdf>\n</sdf>", "<sdf>\n\n</sdf>\n"}

MkFs(rootEnts, boxEnts, thumbKind, thumbs, boxXml, sdfText, hasQ) ==
  LET hasBox    == "box" \in Range(rootEnts)
      hasThumbs == hasBox /\ "thumbnails" \in Range(boxEnts)
      thumbDir  == hasThumbs /\ thumbKind = "dir"
      hasDeep   == hasBox /\ "deep" \in Range(boxEnts)
      dirs ==
        {"/r"}
        \cup (IF hasBox THEN {"/r/box"} ELSE {})
        \cup (IF thumbDir THEN {"/r/box/thumbnails"} ELSE {})
        \cup (IF thumbDir
              THEN {joinPaths("/r/box/thumbnails", n) :
                      n \in Range(thumbs) \cap ThumbDirNames}
              ELSE {})
        \cup (IF hasDeep THEN {"/r/box/deep"} ELSE {})
        \cup (IF hasQ THEN {"/q", "/q/cyl", "/q/cyl/thumbnails"} ELSE {})
      files ==
        {joinPaths("/r", n) : n \in Range(rootEnts) \ {"box"}}
        \cup (IF hasBox
              THEN {joinPaths("/r/box", n) :
                      n \in Range(boxEnts) \ {"thumbnails", "deep"}}
              ELSE {})
        \cup (IF hasThumbs /\ ~thumbDir THEN {"/r/box/thumbnails"} ELSE {})
        \cup (IF thumbDir
              THEN {joinPaths("/r/box/thumbnails", n) :
                      n \in Range(thumbs) \ ThumbDirNames}
              ELSE {})
        \cup (IF hasDeep THEN {"/r/box/deep/model.config"} ELSE {})
        \cup (IF hasQ
              THEN {"/q/cyl/model.config", "/q/cyl/model.sdf",
                    "/q/cyl/thumbnails/c.jpg"}
              ELSE {})
      ents(d) ==
        CASE d = "/r" -> [i \in 1..Len(rootEnts) |-> joinPaths(d, rootEnts[i])]
          [] d = "/r/box" -> [i \in 1..Len(boxEnts) |-> joinPaths(d, boxEnts[i])]
          [] d = "/r/box/thumbnails" ->
               [i \in 1..Len(thumbs) |-> joinPaths(d, thumbs[i])]
          [] d = "/r/box/deep" -> <<"/r/box/deep/model.config">>
          [] d = "/q" -> <<"/q/cyl">>
          [] d = "/q/cyl" ->
               <<"/q/cyl/model.sdf", "/q/cyl/thumbnails", "/q/cyl/model.config">>
          [] d = "/q/cyl/thumbnails" -> <<"/q/cyl/thumbnails/c.jpg">>
          [] OTHER -> <<>>
      xmlOf(p) ==
        CASE p = "/r/box/model.config" -> boxXml
          [] p = "/r/model.config" -> Descriptor("named", "Root", "")
          [] p = "/r/box/deep/model.config" -> Descriptor("named", "Deep", "")
          [] OTHER -> Descriptor("named", "Cylinder", "model.sdf")
      textOf(p) ==
        IF p = "/r/box/model.sdf" THEN sdfText ELSE "<sdf version='1.6'/>\n"
  IN [ kind    |-> [p \in dirs \cup files |->
                      IF p \in dirs THEN "dir" ELSE "file"],
       entries |-> [d \in dirs |-> ents(d)],
       xml     |-> [p \in {f \in files :
                             SubstrFrom(f, RFind(f, "/") + 1) = "model.config"}
                      |-> xmlOf(p)],
       text    |-> [p \in {f \in files :
                             SubstrFrom(f, RFind(f, "/") + 1) = "model.sdf"}
                      |-> textOf(p)],
       link    |-> [p \in {} |-> ""] ]

---------------------------------------------------------------------------
(* The library calls of the code, on the filesystem `fs`:                  *)
(* ignition::common (Filesystem.hh), sdf::getModelFilePath, tinyxml2.      *)

\* The path lies under the directory.
Under(path, dir) ==
  Len(path) > Len(dir) /\ SubSeq(path, 1, Len(dir) + 1) = dir \o "/"

\* The file a path names: the library calls follow symbolic links, which
\* `fs.link` maps to their targets.
RECURSIVE Resolve(_)
Resolve(path) ==
  IF DOMAIN fs.link = {} THEN path
  ELSE LET links == {l \in DOMAIN fs.link : path = l \/ Under(path, l)}
       IN IF links = {} THEN path
          ELSE LET first == CHOOSE l \in links :
                              \A k \in links : Len(l) <= Len(k)
               IN Resolve(fs.link[first] \o SubstrFrom(path, Len(first)))

exists(path) == Resolve(path) \in DOMAIN fs.kind

isDirectory(path) == exists(path) /\ fs.kind[Resolve(path)] = "dir"

isFile(path) == exists(path) /\ fs.kind[Resolve(path)] = "file"

\* common::basename: the text after the last separator.
basename(path) == SubstrFrom(path, RFind(path, "/") + 1)

\* The entries common::DirIter yields, in the order it yields them, each
\* the path iterated joined with the name of an entry; none when the path
\* cannot be opened as a directory.
DirIter(path) ==
  IF ~isDirectory(path) THEN <<>>
  ELSE IF Resolve(path) = path THEN fs.entries[path]
  ELSE [i \in 1..Len(fs.entries[Resolve(path)]) |->
          joinPaths(path, basename(fs.entries[Resolve(path)][i]))]

\* common::parentPath: the text before the last separator.
parentPath(path) == SubstrTo(path, RFind(path, "/"))

\* common::changeToUnixPath: every '\' becomes '/'.
RECURSIVE changeToUnixPathFrom(_, _)
changeToUnixPathFrom(path, i) ==
  IF i >= Len(path) THEN ""
  ELSE (IF CharAt(path, i) = "\\" THEN "/" ELSE CharAt(path, i))
       \o changeToUnixPathFrom(path, i + 1)

changeToUnixPath(path) == changeToUnixPathFrom(path, 0)

\* sdf::getModelFilePath: the model file named by the <sdf> element of the
\* directory's model.config; empty when there is no such descriptor, it has
\* no <model> root or it names no file.
getModelFilePath(modelPath) ==
  LET config == Resolve(joinPaths(modelPath, "model.config"))
  IN IF config \in DOMAIN fs.xml
        /\ fs.xml[config].doc \in {"noName", "nameNoText", "named"}
        /\ fs.xml[config].sdf # ""
     THEN joinPaths(modelPath, fs.xml[config].sdf)
     ELSE ""

\* doc.LoadFile(file) followed by doc.FirstChildElement("model"): is there a
\* root <model> element?  None when the file cannot be opened or parsed.
HasModelElement(file) ==
  /\ Resolve(file) \in DOMAIN fs.xml
  /\ fs.xml[Resolve(file)].doc \in {"noName", "nameNoText", "named"}

\* modelXml->FirstChildElement("name"): is there a <name> child?
HasNameElement(file) == fs.xml[Resolve(file)].doc \in {"nameNoText", "named"}

\* modelName->GetText() returns a null pointer for an element without text.
GetTextIsNull(file) == fs.xml[Resolve(file)].doc = "nameNoText"

GetText(file) == fs.xml[Resolve(file)].name

---------------------------------------------------------------------------
(* LocalModel *)

\* A default-constructed LocalModel: every field an empty string.
LocalModel ==
  [name |-> "", configPath |-> "", sdfPath |-> "", thumbnailPath |-> ""]

\* std::vector::push_back
DedupPushBack(list, model) ==
  IF model \in Range(list) THEN list ELSE Append(list, model)

push_back(list, model) == Append(list, model)

---------------------------------------------------------------------------
(* InsertModel *)

\* The extension test of InsertModel::FindLocalModels.
IM_SupportedExtension(ext) == ext = "png" \/ ext = "jpg" \/ ext = "jpeg"

\* The thumbnail loop of InsertModel::FindLocalModels from its i-th entry:
\* the first regular file whose text after the last '.' is supported.
RECURSIVE IM_FirstThumbnail(_, _)
IM_FirstThumbnail(files, i) ==
  IF i > Len(files) THEN ""
  ELSE LET current == files[i]
           thumbnailIndex == RFind(current, "/")
           thumbnailFileName == SubstrFrom(current, thumbnailIndex + 1)
           thumbnailExtensionIndex == RFind(thumbnailFileName, ".")
           thumbnailFileExtension ==
             SubstrFrom(thumbnailFileName, thumbnailExtensionIndex + 1)
       IN IF isFile(current) /\ IM_SupportedExtension(thumbnailFileExtension)
          THEN current
          ELSE IM_FirstThumbnail(files, i + 1)

\* The record InsertModel::FindLocalModels builds for the descriptor `path`.
IM_Record(path) ==
  LET index == RFind(path, "/")
      modelPath == SubstrTo(path, index)
      thumbnailPath == modelPath \o "/thumbnails"
  IN [LocalModel EXCEPT
        !.configPath = path,
        !.sdfPath = getModelFilePath(modelPath),
        !.thumbnailPath =
          IF exists(thumbnailPath)
          THEN IM_FirstThumbnail(DirIter(thumbnailPath), 1)
          ELSE ""]

\* InsertModel::FindLocalModels(const std::string &): `models` is
\* localModels before the call, the result localModels after it.
RECURSIVE IM_FindLocalModels(_, _)
RECURSIVE IM_FindEach(_, _, _)
IM_FindLocalModels(_path, models) ==
  IF isDirectory(_path)
  THEN IM_FindEach(DirIter(_path), 1, models)
  ELSE IF isFile(_path)
       THEN LET path == changeToUnixPath(_path)
                index == RFind(path, "/")
                fileName == SubstrFrom(path, index + 1)
            IN IF fileName = "model.config"
               THEN push_back(models, IM_Record(path))
               ELSE models
       ELSE models

\* The loops over a list of paths, from its i-th: the directory entries of
\* the recursive case, and the paths of the std::vector overload.
IM_FindEach(paths, i, models) ==
  IF i > Len(paths) THEN models
  ELSE IM_FindEach(paths, i + 1, IM_FindLocalModels(paths[i], models))

\* InsertModel::FindLocalModels(const std::vector<std::string> &)
IM_FindLocalModelsIn(_paths, models) == IM_FindEach(_paths, 1, models)

---------------------------------------------------------------------------
(* ResourceSpawner *)

\* GridModel::AddLocalModel: one row appended, holding the item's text and
\* its thumbnail, name and sdf roles.
AddLocalModel(rows, _model) ==
  Append(rows, [ text      |-> _model.name,
                 thumbnail |-> _model.thumbnailPath,
                 name      |-> _model.name,
                 sdf       |-> _model.sdfPath ])

\* PathModel::AddPath: one row appended, holding the item's text and its
\* path role.
AddPath(rows, _path) == Append(rows, [text |-> _path, path |-> _path])

\* What assigning the null pointer of GetText to a std::string can do: the
\* process dies, or the name ends up empty or with arbitrary text.
NullTextOutcomes == {"crash", "empty", "garbage"}

\* The extension test of ResourceSpawner::LoadLocalModel.
RS_SupportedExtension(ext) ==
  ext = "png" \/ ext = "jpg" \/ ext = "jpeg" \/ ext = "svg"

\* The thumbnail loop of ResourceSpawner::LoadLocalModel from its i-th entry.
RECURSIVE RS_FirstThumbnail(_, _)
RS_FirstThumbnail(files, i) ==
  IF i > Len(files) THEN ""
  ELSE LET current == files[i]
           thumbnailFileName == basename(current)
           thumbnailExtensionIndex == RFind(thumbnailFileName, ".")
           thumbnailFileExtension ==
             SubstrFrom(thumbnailFileName, thumbnailExtensionIndex + 1)
       IN IF isFile(current) /\ RS_SupportedExtension(thumbnailFileExtension)
          THEN current
          ELSE RS_FirstThumbnail(files, i + 1)

\* The early return of ResourceSpawner::LoadLocalModel.
RS_NameOnly(_path) == basename(_path) = "model.config"

RS_IsDescriptor(_path) == isFile(_path) /\ basename(_path) = "model.config"

\* ResourceSpawner::LoadLocalModel.  `st` is the plugin before the call
\* ([grid, models, crashed, loaded]), the result the plugin after it; `ub`
\* is the outcome the build gives a null GetText.
RS_LoadLocalModel(_path, st, ub) ==
  IF st.crashed \/ ~RS_IsDescriptor(_path) THEN st
  ELSE LET modelPath == parentPath(_path)
           thumbnailPath == joinPaths(modelPath, "thumbnails")
           configFileName == joinPaths(modelPath, "model.config")
           hasName == HasModelElement(configFileName)
                      /\ HasNameElement(configFileName)
           nullText == hasName /\ GetTextIsNull(configFileName)
           model ==
             [LocalModel EXCEPT
                !.name = IF ~hasName THEN ""
                         ELSE IF ~nullText THEN GetText(configFileName)
                         ELSE IF ub = "empty" THEN "" ELSE "<garbage>",
                !.sdfPath = getModelFilePath(modelPath),
                !.thumbnailPath =
                  IF exists(thumbnailPath)
                  THEN RS_FirstThumbnail(DirIter(thumbnailPath), 1)
                  ELSE ""]
       IN IF nullText /\ ub = "crash"
          THEN [st EXCEPT !.crashed = TRUE]
          ELSE [st EXCEPT !.grid = AddLocalModel(@, model),
                          !.models = push_back(@, model),
                          !.loaded = Append(@, _path)]

\* The loop of ResourceSpawner::FindLocalModels over the entries of a
\* directory, from the i-th.
RECURSIVE RS_FindEachFlat(_, _, _, _)
RS_FindEachFlat(files, i, st, ub) ==
  IF i > Len(files) THEN st
  ELSE RS_FindEachFlat(files, i + 1, RS_LoadLocalModel(files[i], st, ub), ub)

RECURSIVE RS_FindEach(_, _, _, _)
RS_FindEach(files, i, st, ub) ==
  IF i > Len(files) THEN st
  ELSE LET currentPath == files[i]
           modelConfigPath == joinPaths(currentPath, "model.config")
       IN RS_FindEach(files, i + 1,
            IF isDirectory(currentPath)
            THEN RS_LoadLocalModel(modelConfigPath, st, ub)
            ELSE RS_LoadLocalModel(currentPath, st, ub),
            ub)

\* ResourceSpawner::FindLocalModels
RS_FindLocalModels(_path, st, ub) ==
  IF isDirectory(_path)
  THEN RS_FindEach(DirIter(_path), 1, st, ub)
  ELSE RS_LoadLocalModel(_path, st, ub)

\* The first '\n' of s, 0-based; npos when there is none.
FindNewline(s) ==
  LET hits == {i \in 0..(Len(s) - 1) : CharAt(s, i) = "\n"}
  IN IF hits = {} THEN Npos ELSE CHOOSE i \in hits : \A j \in hits : i <= j

\* The getline loop of OnResourceSpawn on the unread text `rest`: each line
\* read is appended with a '\n'.  std::getline fails, ending the loop, when
\* it can extract nothing.
ReadWhole(rest) == rest

RECURSIVE ReadLines(_)
ReadLines(rest) ==
  IF rest = "" THEN ""
  ELSE LET nl == FindNewline(rest)
       IN IF nl = Npos
          THEN rest \o "\n"
          ELSE SubstrTo(rest, nl) \o "\n" \o ReadLines(SubstrFrom(rest, nl + 1))

\* nameFileout.open(path) and the loop: a path that cannot be opened, or is
\* no regular file, gives a stream every getline fails on.
ReadSdf(modelSdfPath) ==
  IF isFile(modelSdfPath) /\ Resolve(modelSdfPath) \in DOMAIN fs.text
  THEN ReadLines(fs.text[Resolve(modelSdfPath)])
  ELSE ""

SpawnPreviewModel(text) == [type |-> "SpawnPreviewModel", text |-> text]

---------------------------------------------------------------------------
(* The operations *)

Call(op, path, paths, ok, n) ==
  [op |-> op, path |-> path, paths |-> paths, ok |-> ok, n |-> n]

NoCall == Call("none", "", <<>>, TRUE, 0)

\* No InsertModel::FindLocalModels is running: an empty call stack, and no
\* call made yet.
NoWalk == [status |-> "idle", root |-> "", stack |-> <<>>, calls |-> <<>>]

\* InsertModel::FindLocalModels(const std::string &)
IM_Scan(path) ==
  /\ ~crashed
  /\ localModels' = IM_FindLocalModels(path, localModels)
  /\ imCall' = Call("FindLocalModels", path, <<>>, TRUE, imCall.n + 1)
  /\ UNCHANGED <<fs, gridModel, rsModels, pathModel, title, events,
                 requests, findCalls, crashed, rsCall, rsLoaded, imTitle,
                 walk>>

\* InsertModel::FindLocalModels(const std::vector<std::string> &)
IM_ScanPaths(paths) ==
  /\ ~crashed
  /\ localModels' = IM_FindLocalModelsIn(paths, localModels)
  /\ imCall' = Call("FindLocalModelsIn", "", paths, TRUE, imCall.n + 1)
  /\ UNCHANGED <<fs, gridModel, rsModels, pathModel, title, events,
                 requests, findCalls, crashed, rsCall, rsLoaded, imTitle,
                 walk>>

\* One activation of InsertModel::FindLocalModels on a directory: the
\* entries its loop iterates, and the next of them.
Frame(path) == [path |-> path, files |-> DirIter(path), i |-> 1]

\* The test of the loop over the entries: none is left.
IM_SkipsLastEntry(frame) == frame.i >= Len(frame.files)

IM_LoopEnded(frame) == frame.i > Len(frame.files)

\* The outermost call InsertModel::FindLocalModels(path), up to its first
\* recursive call.
IM_Begin(path) ==
  /\ ~crashed
  /\ walk.status = "idle"
  /\ IF isDirectory(path)
     THEN /\ walk' = [status |-> "running", root |-> path,
                      stack |-> <<Frame(path)>>, calls |-> <<path>>]
          /\ UNCHANGED <<localModels, imCall>>
     ELSE /\ walk' = [status |-> "done", root |-> path,
                      stack |-> <<>>, calls |-> <<path>>]
          /\ localModels' = IM_FindLocalModels(path, localModels)
          /\ imCall' = Call("FindLocalModels", path, <<>>, TRUE, imCall.n + 1)
  /\ UNCHANGED <<fs, gridModel, rsModels, pathModel, title, events,
                 requests, findCalls, crashed, rsCall, rsLoaded, imTitle>>

\* The next step of the innermost activation: it returns when its loop has
\* ended, and calls FindLocalModels on its next entry otherwise, which
\* gives a new activation when the entry is a directory.
IM_Step ==
  /\ ~crashed
  /\ walk.status = "running"
  /\ LET top == walk.stack[Len(walk.stack)]
         below == SubSeq(walk.stack, 1, Len(walk.stack) - 1)
     IN IF IM_LoopEnded(top)
        THEN /\ walk' = [walk EXCEPT
                          !.stack = below,
                          !.status = IF below = <<>> THEN "done" ELSE @]
             /\ imCall' = IF below = <<>>
                          THEN Call("FindLocalModels", walk.root, <<>>, TRUE,
                                    imCall.n + 1)
                          ELSE imCall
             /\ UNCHANGED localModels
        ELSE LET current == top.files[top.i]
                 advanced == Append(below, [top EXCEPT !.i = @ + 1])
             IN IF isDirectory(current)
                THEN /\ Len(walk.stack) < MaxDepth
                     /\ walk' = [walk EXCEPT
                                  !.stack = Append(advanced, Frame(current)),
                                  !.calls = Append(@, current)]
                     /\ UNCHANGED <<localModels, imCall>>
                ELSE /\ walk' = [walk EXCEPT
                                  !.stack = advanced,
                                  !.calls = Append(@, current)]
                     /\ localModels' = IM_FindLocalModels(current, localModels)
                     /\ UNCHANGED imCall
  /\ UNCHANGED <<fs, gridModel, rsModels, pathModel, title, events,
                 requests, findCalls, crashed, rsCall, rsLoaded, imTitle>>

\* The directory InsertModel::LoadConfig scans.
ModelsPath ==
  "/home/john/.ignition/fuel/fuel.ignitionrobotics.org/openrobotics/models"

\* InsertModel::LoadConfig.  Installing the event filter changes nothing of
\* this state.
IM_LoadConfig ==
  /\ ~crashed
  /\ imTitle' = IF imTitle = "" THEN "InsertModel" ELSE imTitle
  /\ localModels' = IM_FindLocalModelsIn(<<ModelsPath>>, localModels)
  /\ imCall' = Call("LoadConfig", "", <<ModelsPath>>, TRUE, imCall.n + 1)
  /\ UNCHANGED <<fs, gridModel, rsModels, pathModel, title, events,
                 requests, findCalls, crashed, rsCall, rsLoaded, walk>>

\* What a build does with localModels[0] of an empty vector: the read is
\* outside the storage of the vector, so the process dies, or the bytes
\* read stand for some path.
OutOfRangeOutcomes == {"crash", "read"}

\* The test of InsertModel::OnMode for its first branch.
IM_IsBoxMode(modelSdfString) == modelSdfString = "box"

\* InsertModel::OnMode
IM_OnMode(_mode) ==
  LET modelSdfString == transform_tolower(_mode)
  IN /\ ~crashed
     /\ imCall' = Call("OnMode", _mode, <<>>, TRUE, imCall.n + 1)
     /\ IF IM_IsBoxMode(modelSdfString)
        THEN IF localModels # <<>>
             THEN /\ events' = Append(events,
                      SpawnPreviewModel(ReadSdf(localModels[1].sdfPath)))
                  /\ UNCHANGED crashed
             ELSE \E ub \in OutOfRangeOutcomes :
                    IF ub = "crash"
                    THEN crashed' = TRUE /\ UNCHANGED events
                    ELSE /\ \E sdfPath \in {""} \cup DOMAIN fs.text :
                              events' = Append(events,
                                SpawnPreviewModel(ReadSdf(sdfPath)))
                         /\ UNCHANGED crashed
        ELSE IF modelSdfString \in {"sphere", "cylinder"}
        THEN /\ events' = Append(events, SpawnPreviewModel(modelSdfString))
             /\ UNCHANGED crashed
        ELSE UNCHANGED <<events, crashed>>
     /\ UNCHANGED <<fs, localModels, gridModel, rsModels, pathModel, title,
                    requests, findCalls, rsCall, rsLoaded, imTitle, walk>>

RS_State ==
  [grid |-> gridModel, models |-> rsModels, crashed |-> FALSE,
   loaded |-> rsLoaded]

\* ResourceSpawner::FindLocalModels
RS_Scan(path) ==
  /\ ~crashed
  /\ \E ub \in NullTextOutcomes :
       LET st == RS_FindLocalModels(path, RS_State, ub)
       IN /\ gridModel' = st.grid
          /\ rsModels' = st.models
          /\ crashed' = st.crashed
          /\ rsLoaded' = st.loaded
  /\ rsCall' = Call("FindLocalModels", path, <<>>, TRUE, rsCall.n + 1)
  /\ UNCHANGED <<fs, localModels, pathModel, title, events, requests,
                 findCalls, imCall, imTitle, walk>>

\* The AddPath loop of ResourceSpawner::LoadConfig, from the i-th path.
RECURSIVE AddPaths(_, _, _)
AddPaths(rows, data, i) ==
  IF i > Len(data) THEN rows
  ELSE AddPaths(AddPath(rows, data[i]), data, i + 1)

\* The test of the request's outcome in ResourceSpawner::LoadConfig.
RS_IgnoreResult(executed, result, data) == ~executed \/ Len(data) < 1

RS_RequestFailed(executed, result, data) ==
  ~executed \/ ~result \/ Len(data) < 1

\* ResourceSpawner::LoadConfig.  The request to /gazebo/resource_paths/get
\* is executed or times out, reports a result and returns `data`.
RS_LoadConfig(executed, result, data) ==
  /\ ~crashed
  /\ title' = IF title = "" THEN "Resource Spawner" ELSE title
  /\ requests' = requests + 1
  /\ rsCall' = Call("LoadConfig", "", data, executed /\ result, rsCall.n + 1)
  /\ IF RS_RequestFailed(executed, result, data)
     THEN UNCHANGED <<pathModel, gridModel, rsModels, crashed, findCalls,
                      rsLoaded>>
     ELSE /\ pathModel' = AddPaths(pathModel, data, 1)
          /\ findCalls' = findCalls + 1
          /\ \E ub \in NullTextOutcomes :
               LET st == RS_FindLocalModels(data[1], RS_State, ub)
               IN /\ gridModel' = st.grid
                  /\ rsModels' = st.models
                  /\ crashed' = st.crashed
                  /\ rsLoaded' = st.loaded
  /\ UNCHANGED <<fs, localModels, events, imCall, imTitle, walk>>

\* The events ResourceSpawner::OnResourceSpawn sends for a text.
NoEventWhenEmpty(sent, text) ==
  IF text = "" THEN sent ELSE Append(sent, SpawnPreviewModel(text))

sendEvent(sent, text) == Append(sent, SpawnPreviewModel(text))

\* ResourceSpawner::OnResourceSpawn
RS_OnResourceSpawn(_sdfPath) ==
  /\ ~crashed
  /\ events' = sendEvent(events, ReadSdf(_sdfPath))
  /\ rsCall' = Call("OnResourceSpawn", _sdfPath, <<>>, TRUE, rsCall.n + 1)
  /\ UNCHANGED <<fs, localModels, gridModel, rsModels, pathModel, title,
                 requests, findCalls, crashed, imCall, rsLoaded, imTitle,
                 walk>>

\* The environment removes a regular file.
Restrict(f, S) == [x \in DOMAIN f \cap S |-> f[x]]

DeleteFile(path) ==
  /\ isFile(path)
  /\ LET left == DOMAIN fs.kind \ {path}
     IN fs' = [ kind    |-> Restrict(fs.kind, left),
                entries |-> [d \in DOMAIN fs.entries |->
                               SelectSeq(fs.entries[d], LAMBDA e : e # path)],
                xml     |-> Restrict(fs.xml, left),
                text    |-> Restrict(fs.text, left),
                link    |-> fs.link ]
  /\ UNCHANGED <<localModels, gridModel, rsModels, pathModel, title, events,
                 requests, findCalls, crashed, imCall, rsCall, rsLoaded,
                 imTitle, walk>>

---------------------------------------------------------------------------
(* Specifications *)

DefaultDescriptor == Descriptor("named", "Box", "model.sdf")

DefaultSdfText == "<sdf/>\n"

\* Both plugins freshly constructed.
InitPlugins ==
  /\ localModels = <<>>
  /\ gridModel = <<>>
  /\ rsModels = <<>>
  /\ pathModel = <<>>
  /\ title = ""
  /\ events = <<>>
  /\ requests = 0
  /\ findCalls = 0
  /\ crashed = FALSE
  /\ imCall = NoCall
  /\ rsCall = NoCall
  /\ rsLoaded = <<>>
  /\ imTitle = ""
  /\ walk = NoWalk

\* The trees of the scan specification: every layout of /r and /r/box,
\* with every thumbnails listing of at most MaxThumbs entries under the
\* default descriptor and every descriptor under the shorter listings.
ScanTrees ==
  UNION {
    UNION {
      UNION {
        UNION {
          { MkFs(rootEnts, boxEnts, thumbKind, thumbs, boxXml,
                 DefaultSdfText, FALSE) :
              boxXml \in
                IF "model.config" \in Range(boxEnts)
                THEN (IF Len(thumbs) < MaxThumbs
                      THEN BoxDescriptors ELSE {DefaultDescriptor})
                ELSE {DefaultDescriptor} } :
          thumbs \in
            IF "thumbnails" \in Range(boxEnts) /\ thumbKind = "dir"
            THEN InjSeqs(ThumbNames, MaxThumbs) ELSE {<<>>} } :
        thumbKind \in
          IF "thumbnails" \in Range(boxEnts) THEN {"dir", "file"}
          ELSE {"dir"} } :
      boxEnts \in
        IF "box" \in Range(rootEnts) THEN BoxLayouts ELSE {<<>>} } :
    rootEnts \in RootLayouts }

\* The paths handed to a scan: a root directory, a path that does not
\* exist, a descriptor file itself.
ScanPaths == {"/r", "/nx", "/r/box/model.config"}

ScanPathLists == {<<"/nx", "/r">>}

Init ==
  /\ fs \in ScanTrees
  /\ InitPlugins

\* Each variant scans once.
Next ==
  \/ \E path \in ScanPaths : imCall.n = 0 /\ IM_Scan(path)
  \/ \E paths \in ScanPathLists : imCall.n = 0 /\ IM_ScanPaths(paths)
  \/ \E path \in ScanPaths : rsCall.n = 0 /\ RS_Scan(path)

Spec == Init /\ [][Next]_vars

\* The trees of the specifications of longer behaviours: a model directory
\* /r/box, with or without its model.sdf, and the second root /q.
SessionTrees(descriptors, texts) ==
  UNION {
    { MkFs(<<"box", "model.config">>, boxEnts, "dir", <<"a.txt", "b.png">>,
           boxXml, sdfText, TRUE) :
        boxXml \in descriptors,
        sdfText \in IF "model.sdf" \in Range(boxEnts)
                    THEN texts ELSE {DefaultSdfText} } :
    boxEnts \in { <<"thumbnails", "model.sdf", "model.config">>,
                  <<"deep", "model.config">> } }

\* The paths handed to a scan: two roots, and two paths that do not exist.
SessionPaths == {"/r", "/q", "/nx", "/nx/model.config"}

SessionPathLists == {<<"/r", "/q">>}

InitScans ==
  /\ fs \in SessionTrees({ DefaultDescriptor,
                           Descriptor("noName", "", "model.sdf"),
                           Descriptor("nameNoText", "", "model.sdf") },
                         {DefaultSdfText})
  /\ InitPlugins

\* Any sequence of at most MaxScans scans, of either variant.
NextScans ==
  \/ \E path \in SessionPaths :
       imCall.n + rsCall.n < MaxScans /\ IM_Scan(path)
  \/ \E paths \in SessionPathLists :
       imCall.n + rsCall.n < MaxScans /\ IM_ScanPaths(paths)
  \/ \E path \in SessionPaths :
       imCall.n + rsCall.n < MaxScans /\ RS_Scan(path)

SpecScans == InitScans /\ [][NextScans]_vars

\* What the resource-path request can return.
ResourcePathLists == {<<>>, <<"/r">>, <<"/r", "/q">>, <<"/nx", "/r">>}

\* The paths OnResourceSpawn is called with: the sdf role of a row of the
\* grid, as the view does, or a path that never existed.
SpawnPaths == {gridModel[i].sdf : i \in 1..Len(gridModel)} \cup {"/nx/model.sdf"}

InitPlugin ==
  /\ fs \in SessionTrees({ DefaultDescriptor,
                           Descriptor("named", "Box", "") },
                         SdfTexts)
  /\ InitPlugins

\* The life of the ResourceSpawner plugin: LoadConfig once, when the plugin
\* is loaded, then clicks on the grid; files may disappear at any time.
NextPlugin ==
  \/ \E executed \in BOOLEAN, result \in BOOLEAN, data \in ResourcePathLists :
       rsCall.n = 0 /\ RS_LoadConfig(executed, result, data)
  \/ \E path \in SpawnPaths :
       rsCall.n > 0 /\ rsCall.n < MaxOps /\ RS_OnResourceSpawn(path)
  \/ \E path \in DOMAIN fs.text : DeleteFile(path)

SpecPlugin == InitPlugin /\ [][NextPlugin]_vars

\* The tree `tree` with the directory `from` found at `to` instead.
Rebase(tree, from, to) ==
  LET Re(p) == IF p = from
                  \/ (Len(p) > Len(from)
                      /\ SubSeq(p, 1, Len(from) + 1) = from \o "/")
               THEN to \o SubSeq(p, Len(from) + 1, Len(p))
               ELSE p
      Moved(f) == [q \in {Re(p) : p \in DOMAIN f} |->
                     f[CHOOSE p \in DOMAIN f : Re(p) = q]]
  IN [ kind    |-> Moved(tree.kind),
       entries |-> [d \in DOMAIN Moved(tree.entries) |->
                      [i \in 1..Len(Moved(tree.entries)[d]) |->
                         Re(Moved(tree.entries)[d][i])]],
       xml     |-> Moved(tree.xml),
       text    |-> Moved(tree.text),
       link    |-> [l \in DOMAIN Moved(tree.link) |->
                      Re(Moved(tree.link)[l])] ]

\* The machines InsertModel runs on: one without the directory LoadConfig
\* scans, and those where it is there, empty or with models in it.
InsertTrees ==
  LET trees ==
        { MkFs(rootEnts, <<"model.sdf", "model.config">>, "dir", <<>>,
               boxXml, sdfText, FALSE) :
            rootEnts \in {<<>>, <<"box">>, <<"model.config", "box">>},
            boxXml \in {DefaultDescriptor, Descriptor("named", "Box", "")},
            sdfText \in {DefaultSdfText, "<sdf>\n</sdf>"} }
  IN trees \cup {Rebase(t, "/r", ModelsPath) : t \in trees}

\* What the view calls OnMode with.
Modes == {"box", "Box", "sphere", "Cylinder", "cone", ""}

InitInsert ==
  /\ fs \in InsertTrees
  /\ InitPlugins

\* The life of the InsertModel plugin: LoadConfig once, when the plugin is
\* loaded, then clicks on the shape buttons; files may disappear at any
\* time.
NextInsert ==
  \/ imCall.n = 0 /\ IM_LoadConfig
  \/ \E mode \in Modes :
       imCall.n > 0 /\ imCall.n < MaxOps /\ IM_OnMode(mode)
  \/ \E path \in DOMAIN fs.text : DeleteFile(path)

SpecInsert == InitInsert /\ [][NextInsert]_vars

\* The tree with a symbolic link `name` to `target` in the directory `dir`,
\* enumerated first or last.
AddLink(tree, dir, name, target, first) ==
  [tree EXCEPT
     !.entries[dir] = IF first THEN <<joinPaths(dir, name)>> \o @
                      ELSE Append(@, joinPaths(dir, name)),
     !.link = @ @@ (joinPaths(dir, name) :> target)]

\* The trees of the step-by-step scan: /r with a model directory /r/box of
\* one or two levels, and the second root /q; and each of them with a link
\* in /r/box to /r/box itself or to /r.
WalkTrees ==
  LET trees ==
        { MkFs(<<"box", "model.config">>, boxEnts, "dir", <<>>,
               DefaultDescriptor, DefaultSdfText, TRUE) :
            boxEnts \in { <<"model.sdf", "model.config">>,
                          <<"deep", "model.config">>,
                          <<"model.config", "model.sdf", "deep">> } }
  IN trees
     \cup {AddLink(t, "/r/box", "loop", target, first) :
             t \in trees, target \in {"/r", "/r/box"}, first \in BOOLEAN}

WalkPaths == {"/r", "/q", "/r/box", "/nx", "/r/box/model.config"}

InitWalk ==
  /\ fs \in WalkTrees
  /\ InitPlugins

\* One call of InsertModel::FindLocalModels, step by step.
NextWalk ==
  \/ \E path \in WalkPaths : IM_Begin(path)
  \/ IM_Step

\* The call is synchronous: once begun, its next step is taken whenever
\* there is one.
SpecWalk == InitWalk /\ [][NextWalk]_vars /\ WF_vars(IM_Step)

---------------------------------------------------------------------------
(* Vocabulary of the properties, independent of the operators above. *)

\* The last component of a path.
NameOf(p) ==
  LET slashes == {i \in 1..Len(p) : SubSeq(p, i, i) = "/"}
  IN IF slashes = {} THEN p ELSE SubSeq(p, Max(slashes) + 1, Len(p))

\* The directory part of a path.
DirOf(p) ==
  LET slashes == {i \in 1..Len(p) : SubSeq(p, i, i) = "/"}
  IN IF slashes = {} THEN "" ELSE SubSeq(p, 1, Max(slashes) - 1)

\* The extension of a file name: the text after its last '.'.  A name
\* without a '.' has none.
HasExtension(name, ext) ==
  \E i \in 1..Len(name) :
    /\ SubSeq(name, i, i) = "."
    /\ SubSeq(name, i + 1, Len(name)) = ext
    /\ \A j \in (i + 1)..Len(name) : SubSeq(name, j, j) # "."

IM_Extensions == {"png", "jpg", "jpeg"}

RS_Extensions == {"png", "jpg", "jpeg", "svg"}

\* The regular files named model.config.
ConfigFiles ==
  {p \in DOMAIN fs.kind : fs.kind[p] = "file" /\ NameOf(p) = "model.config"}

\* A descriptor directly under the root or in one of its subdirectories.
Shallow(c, root) == DirOf(c) = root \/ DirOf(DirOf(c)) = root

IsDir(p) == p \in DOMAIN fs.kind /\ fs.kind[p] = "dir"

\* The descriptors within reach of ResourceSpawner's scan of a directory,
\* in enumeration order: an entry that is a descriptor, or the descriptor
\* directly inside an entry that is a directory.
ShallowDescriptors(root) ==
  LET ents == fs.entries[root]
      at(e) == IF fs.kind[e] = "dir" THEN e \o "/model.config" ELSE e
  IN SelectSeq([i \in 1..Len(ents) |-> at(ents[i])],
               LAMBDA c : c \in ConfigFiles)

\* The entries of a thumbnails directory that are regular files with one
\* of the extensions.
Supported(dir, exts) ==
  {i \in 1..Len(fs.entries[dir]) :
     /\ fs.kind[fs.entries[dir][i]] = "file"
     /\ \E e \in exts : HasExtension(NameOf(fs.entries[dir][i]), e)}

\* The first of them in enumeration order; empty when there is none.
FirstSupported(dir, exts) ==
  IF Supported(dir, exts) = {} THEN ""
  ELSE fs.entries[dir][CHOOSE i \in Supported(dir, exts) :
                         \A j \in Supported(dir, exts) : i <= j]

\* The regular files of a directory whose whole name is one of the
\* extensions.
BareNames(dir, exts) ==
  {e \in Range(fs.entries[dir]) : fs.kind[e] = "file" /\ NameOf(e) \in exts}

ThumbnailsOf(config) == DirOf(config) \o "/thumbnails"

ImScanned(path) == imCall.op = "FindLocalModels" /\ imCall.path = path

RsScanned(path) ==
  rsCall.op = "FindLocalModels" /\ rsCall.path = path /\ ~crashed

---------------------------------------------------------------------------
(* C1 *)

\* C1: when the tree under the scanned root /r holds exactly one file named
\* model.config, directly under the root or in one of its subdirectories,
\* a scan of /r by either variant leaves exactly one record, whose
\* configPath is the path of that file.
C1_OneDescriptorOneRecord ==
  \A c \in ConfigFiles :
    (ConfigFiles = {c} /\ Shallow(c, "/r")) =>
      /\ ImScanned("/r") =>
           Len(localModels) = 1 /\ localModels[1].configPath = c
      /\ RsScanned("/r") =>
           Len(rsModels) = 1 /\ rsModels[1].configPath = c

\* C1, as far as it holds: InsertModel's record carries the descriptor's
\* path, and ResourceSpawner adds exactly one record and one grid row.
C1_HoldsForInsertModel ==
  \A c \in ConfigFiles :
    (ConfigFiles = {c} /\ Shallow(c, "/r")) =>
      /\ ImScanned("/r") =>
           Len(localModels) = 1 /\ localModels[1].configPath = c
      /\ RsScanned("/r") => Len(rsModels) = 1 /\ Len(gridModel) = 1

\* C1: both variants have scanned a root with one shallow descriptor.
C1_Reached ==
  /\ ConfigFiles = {"/r/box/model.config"}
  /\ ImScanned("/r") /\ RsScanned("/r")
  /\ Len(localModels) = 1 /\ Len(rsModels) = 1

---------------------------------------------------------------------------
(* C2 *)

\* The thumbnail of every record is the first supported file of the
\* thumbnails directory beside its descriptor; with `bare` unset, only for
\* the directories holding no file named just like an extension.
FirstThumbnailWins(bare) ==
  /\ ImScanned("/r") =>
       \A i \in 1..Len(localModels) :
         LET dir == ThumbnailsOf(localModels[i].configPath)
         IN (IsDir(dir) /\ (bare \/ BareNames(dir, IM_Extensions) = {})) =>
              localModels[i].thumbnailPath = FirstSupported(dir, IM_Extensions)
  /\ (RsScanned("/r") /\ Len(rsModels) = Len(ShallowDescriptors("/r"))) =>
       \A i \in 1..Len(rsModels) :
         LET dir == ThumbnailsOf(ShallowDescriptors("/r")[i])
         IN (IsDir(dir) /\ (bare \/ BareNames(dir, RS_Extensions) = {})) =>
              rsModels[i].thumbnailPath = FirstSupported(dir, RS_Extensions)

\* C2: a record's thumbnailPath is the first regular file, in enumeration
\* order, of the thumbnails directory beside its descriptor whose extension
\* is png, jpg or jpeg (or svg, for ResourceSpawner); entries before it that
\* do not match are skipped, entries after it do not count.
C2_FirstSupportedThumbnail == FirstThumbnailWins(TRUE)

\* C2, as far as it holds: the same, for the thumbnails directories holding
\* no file named just png, jpg, jpeg or svg.
C2_HoldsWithoutBareNames == FirstThumbnailWins(FALSE)

\* C2: a scan skipped an unsupported entry and took the supported file
\* after it.
C2_Reached ==
  /\ IsDir("/r/box/thumbnails")
  /\ fs.entries["/r/box/thumbnails"] =
       <<"/r/box/thumbnails/a.txt", "/r/box/thumbnails/b.png">>
  /\ ImScanned("/r") /\ RsScanned("/r")
  /\ \E i \in 1..Len(localModels) :
       localModels[i].thumbnailPath = "/r/box/thumbnails/b.png"
  /\ \E i \in 1..Len(rsModels) :
       rsModels[i].thumbnailPath = "/r/box/thumbnails/b.png"

---------------------------------------------------------------------------
(* C3 *)

\* The thumbnail of a record of the descriptor `config` is empty or a file
\* with one of the extensions in the thumbnails directory beside it, and is
\* empty when that directory holds no such file.
ThumbnailWellFormed(thumbnailPath, config, exts) ==
  /\ \/ thumbnailPath = ""
     \/ /\ DirOf(thumbnailPath) = ThumbnailsOf(config)
        /\ thumbnailPath \in DOMAIN fs.kind
        /\ fs.kind[thumbnailPath] = "file"
        /\ \E e \in exts : HasExtension(NameOf(thumbnailPath), e)
  /\ (IsDir(ThumbnailsOf(config))
      /\ Supported(ThumbnailsOf(config), exts) = {}) => thumbnailPath = ""

\* C3: in every record the thumbnailPath is empty or names a file with a
\* supported extension in the thumbnails directory beside the descriptor; a
\* thumbnails directory without such a file, files without a '.' in their
\* name included, gives an empty thumbnailPath.
C3_ThumbnailEmptyOrSupported ==
  /\ ImScanned("/r") =>
       \A i \in 1..Len(localModels) :
         ThumbnailWellFormed(localModels[i].thumbnailPath,
                             localModels[i].configPath, IM_Extensions)
  /\ (RsScanned("/r") /\ Len(rsModels) = Len(ShallowDescriptors("/r"))) =>
       \A i \in 1..Len(rsModels) :
         ThumbnailWellFormed(rsModels[i].thumbnailPath,
                             ShallowDescriptors("/r")[i], RS_Extensions)

\* C3, as far as it holds: the same, for the trees whose thumbnails
\* directory holds no file named just png, jpg, jpeg or svg.
C3_HoldsWithoutBareNames ==
  (IsDir("/r/box/thumbnails")
     => BareNames("/r/box/thumbnails", RS_Extensions) = {})
  => C3_ThumbnailEmptyOrSupported

\* C3: both variants scanned a thumbnails directory without a supported
\* file and left the thumbnail empty.
C3_Reached ==
  /\ IsDir("/r/box/thumbnails")
  /\ fs.entries["/r/box/thumbnails"] =
       <<"/r/box/thumbnails/f.PNG", "/r/box/thumbnails/a.txt">>
  /\ ImScanned("/r") /\ RsScanned("/r")
  /\ Len(localModels) > 0 /\ Len(rsModels) > 0
  /\ \A i \in 1..Len(localModels) : localModels[i].thumbnailPath = ""
  /\ \A i \in 1..Len(rsModels) : rsModels[i].thumbnailPath = ""

---------------------------------------------------------------------------
(* C4 *)

\* Descriptors that cannot be opened or parsed, have no root model element
\* or have no name child.
Nameless(config) ==
  fs.xml[config].doc \in {"unreadable", "malformed", "noModel", "noName"}

\* The external resolver finds the model file of the descriptor.
Resolvable(config) ==
  fs.xml[config].doc \in {"noName", "nameNoText", "named"}
  /\ fs.xml[config].sdf # ""

\* After ResourceSpawner's scan of /r, when no descriptor has a name element
\* without text: no error, one record per descriptor in reach, and the
\* record of each nameless descriptor has an empty name, a model file where
\* it resolves and, with `config` set, a configPath.
NamelessKept(config) ==
  LET found == ShallowDescriptors("/r")
  IN (/\ rsCall.op = "FindLocalModels" /\ rsCall.path = "/r"
      /\ \A i \in 1..Len(found) : fs.xml[found[i]].doc # "nameNoText")
     => /\ ~crashed
        /\ Len(rsModels) = Len(found)
        /\ Len(gridModel) = Len(found)
        /\ \A i \in 1..Len(found) :
             Nameless(found[i]) =>
               /\ rsModels[i].name = ""
               /\ config => rsModels[i].configPath # ""
               /\ Resolvable(found[i]) => rsModels[i].sdfPath # ""

\* C4: a descriptor that cannot be opened or parsed, has no root model
\* element or has no name child still gets exactly one record from
\* LoadLocalModel, with an empty name, a non-empty configPath and, where the
\* model file resolves, a non-empty sdfPath; no error is raised.
C4_NamelessDescriptorKept == NamelessKept(TRUE)

\* C4, as far as it holds: the same without the configPath.
C4_HoldsButConfigPath == NamelessKept(FALSE)

\* C4: ResourceSpawner scanned a descriptor without a name child whose model
\* file resolves.
C4_Reached ==
  /\ "/r/box/model.config" \in DOMAIN fs.xml
  /\ fs.xml["/r/box/model.config"] = Descriptor("noName", "", "model.sdf")
  /\ RsScanned("/r")
  /\ \E i \in 1..Len(rsModels) :
       rsModels[i].name = "" /\ rsModels[i].sdfPath = "/r/box/model.sdf"

---------------------------------------------------------------------------
(* C5 *)

ImScanStep == imCall'.n = imCall.n + 1

RsScanStep == rsCall'.n = rsCall.n + 1 /\ rsCall'.op = "FindLocalModels"

\* C5: a scan, by either variant, of a root path that does not exist adds
\* no record, raises no error and leaves the records collected before as
\* they were.
C5_MissingRootAddsNothing ==
  [][ /\ (/\ ImScanStep
          /\ imCall'.op = "FindLocalModels"
          /\ imCall'.path \notin DOMAIN fs.kind)
         => localModels' = localModels /\ ~crashed'
      /\ (RsScanStep /\ rsCall'.path \notin DOMAIN fs.kind)
         => /\ gridModel' = gridModel
            /\ rsModels' = rsModels
            /\ ~crashed' ]_vars

\* C5: each variant scanned a missing root, InsertModel after it had
\* collected records.
C5_Reached ==
  /\ imCall.op = "FindLocalModels" /\ imCall.path \notin DOMAIN fs.kind
  /\ rsCall.op = "FindLocalModels" /\ rsCall.path \notin DOMAIN fs.kind
  /\ localModels # <<>>
  /\ ~crashed

---------------------------------------------------------------------------
(* C6 *)

\* The grid holds a row for the descriptor: its name and its model file.
HasRowOf(config) ==
  \E i \in 1..Len(gridModel) :
    /\ gridModel[i].name = fs.xml[config].name
    /\ gridModel[i].sdf =
         IF Resolvable(config)
         THEN DirOf(config) \o "/" \o fs.xml[config].sdf ELSE ""

\* LoadConfig was the last call and its request succeeded.
Loaded ==
  /\ rsCall.op = "LoadConfig" /\ rsCall.ok /\ Len(rsCall.paths) >= 1
  /\ ~crashed

\* After a successful LoadConfig the grid holds the records found under
\* each of the first `upTo` returned roots.
RootsInGrid(upTo) ==
  Loaded =>
    \A k \in 1..Min(upTo, Len(rsCall.paths)) :
      IsDir(rsCall.paths[k]) =>
        \A i \in 1..Len(ShallowDescriptors(rsCall.paths[k])) :
          HasRowOf(ShallowDescriptors(rsCall.paths[k])[i])

\* C6: LoadConfig scans every root path the resource-path request returned:
\* the grid holds the records found under each of them.
C6_EveryRootScanned == RootsInGrid(Len(rsCall.paths))

\* C6, as far as it holds: the grid holds the records found under the first
\* returned root, and the path model holds every returned root.
C6_HoldsForFirstRoot ==
  /\ RootsInGrid(1)
  /\ Loaded =>
       /\ Len(pathModel) = Len(rsCall.paths)
       /\ \A k \in 1..Len(pathModel) : pathModel[k].path = rsCall.paths[k]

\* C6: the request returned two roots, both with a descriptor in reach.
C6_Reached ==
  /\ Loaded
  /\ rsCall.paths = <<"/r", "/q">>
  /\ ShallowDescriptors("/q") # <<>>
  /\ Len(pathModel) = 2

---------------------------------------------------------------------------
(* C7 *)

SpawnStep == rsCall'.n = rsCall.n + 1 /\ rsCall'.op = "OnResourceSpawn"

\* A text with its last line terminated.
Terminated(text) ==
  IF text = "" \/ SubSeq(text, Len(text), Len(text)) = "\n"
  THEN text ELSE text \o "\n"

\* C7: every call of OnResourceSpawn with the path of a readable file sends
\* exactly one SpawnPreviewModel event, carrying the full text of the file.
C7_EventCarriesFileText ==
  [][ (SpawnStep /\ rsCall'.path \in DOMAIN fs.text)
      => events' = Append(events, SpawnPreviewModel(fs.text[rsCall'.path]))
    ]_vars

\* C7, amended: the event carries the lines of the file, each followed by a
\* newline: the text of the file, with a newline added when its last line
\* has none.
C7_EventCarriesTerminatedLines ==
  [][ (SpawnStep /\ rsCall'.path \in DOMAIN fs.text)
      => events' = Append(events,
                     SpawnPreviewModel(Terminated(fs.text[rsCall'.path])))
    ]_vars

\* C7: a file whose last line has no newline was spawned.
C7_Reached ==
  /\ rsCall.op = "OnResourceSpawn"
  /\ rsCall.path \in DOMAIN fs.text
  /\ fs.text[rsCall.path] = "<sdf>\n</sdf>"
  /\ events # <<>>
  /\ events[Len(events)].text = "<sdf>\n</sdf>\n"

---------------------------------------------------------------------------
(* C8 *)

\* C8: a call of OnResourceSpawn with a path that cannot be opened still
\* sends exactly one event, with empty text; no error is raised and the grid
\* stays as it was.
C8_UnopenablePathSendsEmpty ==
  [][ (SpawnStep /\ rsCall'.path \notin DOMAIN fs.kind)
      => /\ events' = Append(events, SpawnPreviewModel(""))
         /\ gridModel' = gridModel
         /\ rsModels' = rsModels
         /\ pathModel' = pathModel
         /\ ~crashed' ]_vars

\* C8: the model file of a row of the grid was deleted after the scan, and
\* the row was clicked.
C8_Reached ==
  /\ rsCall.op = "OnResourceSpawn"
  /\ rsCall.path \notin DOMAIN fs.kind
  /\ \E i \in 1..Len(gridModel) : gridModel[i].sdf = rsCall.path
  /\ rsCall.path = "/r/box/model.sdf"
  /\ events # <<>>
  /\ events[Len(events)] = SpawnPreviewModel("")

---------------------------------------------------------------------------
(* C9 *)

\* C9: when the resource-path request times out, reports a false result or
\* returns no path, LoadConfig adds no path and no record, does not call
\* FindLocalModels, has made the request once, and returns normally.
C9_FailedRequestAbortsScan ==
  [][ (/\ rsCall'.n = rsCall.n + 1
       /\ rsCall'.op = "LoadConfig"
       /\ (~rsCall'.ok \/ rsCall'.paths = <<>>))
      => /\ pathModel' = pathModel
         /\ gridModel' = gridModel
         /\ rsModels' = rsModels
         /\ findCalls' = findCalls
         /\ requests' = requests + 1
         /\ title' = "Resource Spawner"
         /\ ~crashed' ]_vars

\* C9: the request failed although it returned a path, and the plugin was
\* used afterwards.
C9_Reached ==
  /\ rsCall.op = "LoadConfig"
  /\ ~rsCall.ok
  /\ rsCall.paths = <<"/r", "/q">>
  /\ requests = 1 /\ findCalls = 0
  /\ pathModel = <<>> /\ gridModel = <<>>
  /\ title = "Resource Spawner"
  /\ ~crashed

---------------------------------------------------------------------------
(* C10 *)

\* The regular files at or below a path, directories entered in enumeration
\* order as they are met.
RECURSIVE Walk(_)
RECURSIVE WalkAll(_, _)
Walk(p) ==
  IF IsDir(p) THEN WalkAll(fs.entries[p], 1)
  ELSE IF p \in DOMAIN fs.kind THEN <<p>> ELSE <<>>

WalkAll(ps, i) ==
  IF i > Len(ps) THEN <<>> ELSE Walk(ps[i]) \o WalkAll(ps, i + 1)

IsConfig(p) == p \in ConfigFiles

\* The descriptors an InsertModel call meets, in order.
ImDescriptors(call) ==
  IF call.op = "FindLocalModels"
  THEN SelectSeq(Walk(call.path), IsConfig)
  ELSE SelectSeq(WalkAll(call.paths, 1), IsConfig)

\* The descriptors a ResourceSpawner scan meets, in order.
RsDescriptors(path) ==
  IF IsDir(path) THEN ShallowDescriptors(path)
  ELSE IF path \in ConfigFiles THEN <<path>> ELSE <<>>

\* `after` is `before` followed by one record for each of `found`.
Appended(before, after, found) ==
  /\ Len(after) = Len(before) + Len(found)
  /\ SubSeq(after, 1, Len(before)) = before

\* C10: every scan appends its records, in enumeration order, to the
\* records collected before, which stay as they were: nothing is sorted,
\* removed or deduplicated, and a root scanned twice gives its records
\* twice.
C10_ScansAppend ==
  [][ /\ ImScanStep =>
           /\ Appended(localModels, localModels', ImDescriptors(imCall'))
           /\ \A i \in 1..Len(ImDescriptors(imCall')) :
                localModels'[Len(localModels) + i].configPath =
                  ImDescriptors(imCall')[i]
      /\ (RsScanStep /\ ~crashed') =>
           /\ Appended(rsModels, rsModels', RsDescriptors(rsCall'.path))
           /\ Appended(gridModel, gridModel', RsDescriptors(rsCall'.path))
           /\ \A i \in 1..Len(RsDescriptors(rsCall'.path)) :
                fs.xml[RsDescriptors(rsCall'.path)[i]].doc = "named" =>
                  gridModel'[Len(gridModel) + i].name =
                    fs.xml[RsDescriptors(rsCall'.path)[i]].name ]_vars

\* C10: InsertModel scanned the same root twice and holds every record
\* twice.
C10_Reached ==
  /\ imCall.n = 2 /\ rsCall.n = 0
  /\ imCall.path = "/r"
  /\ Len(localModels) = 2 * Len(SelectSeq(Walk("/r"), IsConfig))
  /\ Len(localModels) >= 4
  /\ \A i \in 1..(Len(localModels) \div 2) :
       localModels[i] = localModels[i + Len(localModels) \div 2]

---------------------------------------------------------------------------
(* C11 *)

ConfigPaths(models) == [i \in 1..Len(models) |-> models[i].configPath]

\* The path is the root or lies under it.
Below(p, root) ==
  \/ p = root
  \/ Len(p) > Len(root) /\ SubSeq(p, 1, Len(root) + 1) = root \o "/"

\* Every descriptor of the tree of a root is the root itself, directly
\* under it or directly inside one of its subdirectories.
ShallowTree(root) ==
  \A c \in ConfigFiles : Below(c, root) => (c = root \/ Shallow(c, root))

\* C11: the ResourceSpawner scan of a root loads exactly the descriptors
\* that are the root itself, an entry of the root or directly inside a
\* subdirectory of the root, never one nested deeper; the InsertModel scan
\* reports every descriptor of the tree, at any depth; and on a tree whose
\* descriptors are all within the shallow range the two scans report the
\* same descriptors in the same order.
C11_ShallowVersusDeep ==
  \A path \in {imCall.path, rsCall.path} :
    /\ RsScanned(path) =>
         /\ rsLoaded = RsDescriptors(path)
         /\ Range(rsLoaded) =
              {c \in ConfigFiles : c = path \/ Shallow(c, path)}
    /\ ImScanned(path) =>
         /\ ConfigPaths(localModels) = SelectSeq(Walk(path), IsConfig)
         /\ Range(ConfigPaths(localModels)) =
              {c \in ConfigFiles : Below(c, path)}
    /\ (RsScanned(path) /\ ImScanned(path) /\ ShallowTree(path)) =>
         ConfigPaths(localModels) = rsLoaded

\* C11: both variants scanned /r, a tree with a descriptor two directories
\* down: InsertModel reports it, after the two shallow ones that both
\* report.
C11_Reached ==
  /\ RsScanned("/r") /\ ImScanned("/r")
  /\ "/r/box/deep/model.config" \in Range(ConfigPaths(localModels))
  /\ "/r/box/deep/model.config" \notin Range(rsLoaded)
  /\ Len(rsLoaded) = 2
  /\ \A c \in Range(rsLoaded) : c \in Range(ConfigPaths(localModels))

\* Both variants scanned a root whose tree is shallow and reported the same
\* two descriptors.
C11_ReachedShallow ==
  /\ RsScanned("/r") /\ ImScanned("/r") /\ ShallowTree("/r")
  /\ Len(rsLoaded) = 2 /\ ConfigPaths(localModels) = rsLoaded

---------------------------------------------------------------------------
(* C14 *)

\* The descriptors a ResourceSpawner scan meets whose <name> element has no
\* text, by their position among the descriptors met.
NullNamed(path) ==
  {i \in 1..Len(RsDescriptors(path)) :
     fs.xml[RsDescriptors(path)[i]].doc = "nameNoText"}

\* C14: a ResourceSpawner scan that meets a descriptor whose <name> element
\* has no text completes, and has appended one record for every descriptor
\* met, the record of that descriptor with an empty name, as for a
\* descriptor without a <name> element.
C14_NullTextGivesEmptyName ==
  (rsCall.op = "FindLocalModels" /\ NullNamed(rsCall.path) # {}) =>
    /\ ~crashed
    /\ Len(rsModels) = Len(RsDescriptors(rsCall.path))
    /\ \A i \in NullNamed(rsCall.path) : rsModels[i].name = ""

\* C14: the scan of /r met the descriptor of /r/box, whose <name> has no
\* text, after it loaded /r/model.config.
C14_Reached ==
  /\ rsCall.op = "FindLocalModels" /\ rsCall.path = "/r"
  /\ RsDescriptors("/r") = <<"/r/model.config", "/r/box/model.config">>
  /\ NullNamed("/r") = {2}
  /\ rsLoaded = <<"/r/model.config">>

\* A descriptor without a <name> element does give a record with an empty
\* name, whatever the build.
C14_HoldsForMissingName ==
  (rsCall.op = "FindLocalModels" /\ NullNamed(rsCall.path) = {}) =>
    /\ ~crashed
    /\ Len(rsModels) = Len(RsDescriptors(rsCall.path))
    /\ \A i \in 1..Len(rsModels) :
         fs.xml[RsDescriptors(rsCall.path)[i]].doc = "noName" =>
           rsModels[i].name = ""

---------------------------------------------------------------------------
(* C13 *)

\* A step of InsertModel::OnMode in which the lower-cased mode is "box",
\* the one that reads localModels[0].
BoxStep ==
  /\ imCall'.n = imCall.n + 1
  /\ imCall'.op = "OnMode"
  /\ transform_tolower(imCall'.path) = "box"

\* C13: whenever OnMode reads localModels[0], localModels is not empty.
C13_FrontReadWithinBounds == [][BoxStep => localModels # <<>>]_vars

\* C13: LoadConfig found no descriptor, and OnMode was then called with
\* "Box".
C13_Reached ==
  /\ imCall.op = "OnMode" /\ imCall.path = "Box" /\ imCall.n = 2
  /\ localModels = <<>>

\* Where LoadConfig found a descriptor, the read is within bounds and the
\* event carries the lines of the first record's model file.
C13_HoldsAfterModelFound ==
  [][(BoxStep /\ localModels # <<>>) =>
       /\ ~crashed'
       /\ events' = Append(events,
            SpawnPreviewModel(ReadSdf(localModels[1].sdfPath)))]_vars

---------------------------------------------------------------------------
(* C12 *)

\* The tree of the root is self-referential: it holds a link to a
\* directory the link itself lies in.
Cyclic(root) ==
  \E l \in DOMAIN fs.link :
    (l = root \/ Under(l, root)) /\ Under(l, fs.link[l])

\* The entries of the tree of a root.
Entries(root) == {p \in DOMAIN fs.kind : Under(p, root)}

NoRepeat(q) == \A i, j \in 1..Len(q) : q[i] = q[j] => i = j

\* The scan can take its next step: the innermost activation returns, or
\* calls FindLocalModels on its next entry, which the model follows into a
\* directory while the stack is no deeper than MaxDepth.
CanStep ==
  LET top == walk.stack[Len(walk.stack)]
  IN \/ IM_LoopEnded(top)
     \/ ~isDirectory(top.files[top.i])
     \/ Len(walk.stack) < MaxDepth

\* What is left of the scan of a tree without a cycle: two for each entry
\* not yet visited, one for each activation that has not returned.
Remaining ==
  2 * (1 + Cardinality(Entries(walk.root)) - Len(walk.calls))
  + Len(walk.stack)

\* C12: a scan of a root whose tree is finite and without a cycle, once
\* begun, runs to completion: until it has ended its next step can be
\* taken, and every step leaves less of the tree to scan; when it has
\* ended it has visited every entry of the tree exactly once, and
\* reported what the whole scan reports.  A scan of a root whose tree is
\* self-referential never ends: it goes deeper with no bound but the one
\* of the model.
C12_TerminatesUnlessCyclic ==
  /\ []((walk.status = "running" /\ ~Cyclic(walk.root)) =>
          (CanStep /\ Remaining > 0))
  /\ [][(walk.status = "running" /\ ~Cyclic(walk.root)) =>
          (Remaining' < Remaining /\ Remaining' >= 0)]_vars
  /\ [](walk.status = "done" =>
          /\ ~Cyclic(walk.root)
          /\ NoRepeat(walk.calls)
          /\ Range(walk.calls) = {walk.root} \cup Entries(walk.root)
          /\ localModels = IM_FindLocalModels(walk.root, <<>>))
  /\ []((walk.status = "running" /\ Cyclic(walk.root)) =>
          (CanStep \/ Len(walk.stack) = MaxDepth))

\* C12: the scan of /r, a tree of three levels without a cycle, has
\* terminated.
C12_Reached ==
  /\ walk.status = "done" /\ walk.root = "/r"
  /\ "/r/box/deep/model.config" \in Range(walk.calls)
  /\ Len(walk.calls) = 1 + Cardinality(Entries("/r"))
  /\ Len(localModels) = 3

\* The scan of a self-referential tree has gone round the cycle more than
\* once: it is deeper than the tree has directories, and is in /r/box for
\* the second time.
C12_ReachedCycle ==
  /\ walk.status = "running" /\ Cyclic(walk.root)
  /\ Len(walk.stack) = MaxDepth
  /\ Len(walk.stack) >
       Cardinality({d \in DOMAIN fs.kind : fs.kind[d] = "dir"
                                           /\ Under(d, walk.root)}) + 1
  /\ \E i, j \in 1..Len(walk.stack) :
       /\ i < j
       /\ Resolve(walk.stack[i].path) = Resolve(walk.stack[j].path)

=============================================================================
